---- MODULE Spec2Model ----
(***************************************************************************)
(* Model of agency_script.py: the candidate-screening graph                *)
(* (categorize_experience -> assess_skillset -> route_application -> one   *)
(* of three terminal nodes -> END), its entry point                        *)
(* run_candidate_screening, and the part of main() that drives it: the     *)
(* "Screen Application" button, the session's screening_history, the       *)
(* status/decision display, Quick Stats and the "Clear History" button.    *)
(*                                                                         *)
(* Texts are TLA+ strings, read character by character with Len and        *)
(* SubSeq.  Non-ASCII characters of the source's literals (the emoji at    *)
(* the head of each response) are written as their code point, "U+1F389".  *)
(***************************************************************************)
EXTENDS Integers, Sequences, FiniteSets, TLC

VARIABLES
    llm,                \* the backend behind `llm`: prompt kind -> application -> possible outcomes
    pc,                 \* position of the script: "idle" or the graph node about to run
    state,              \* the graph's State dict of the run in progress (keys set so far)
    outcome,            \* what run_candidate_screening last did: nothing yet, returned, raised
    screening_history,  \* st.session_state.screening_history
    view,               \* what the last script run rendered
    trace,              \* history variable: nodes executed by the current run, in order
    log                 \* history variable: successful screenings since the last clear, oldest first

vars == <<llm, pc, state, outcome, screening_history, view, trace, log>>

----------------------------------------------------------------------------
(* Bounds *)

MaxHistory == 2

----------------------------------------------------------------------------
(* Python string primitives *)

Whitespace == {" ", "\n", "\t", "\r", "\f"}

CharAt(s, i) == SubSeq(s, i, i)

\* sub in s
Contains(sub, s) ==
    \E i \in 0..(Len(s) - Len(sub)) : SubSeq(s, i + 1, i + Len(sub)) = sub

RECURSIVE lstrip(_)
lstrip(s) ==
    IF Len(s) > 0 /\ CharAt(s, 1) \in Whitespace
    THEN lstrip(SubSeq(s, 2, Len(s)))
    ELSE s

RECURSIVE rstrip(_)
rstrip(s) ==
    IF Len(s) > 0 /\ CharAt(s, Len(s)) \in Whitespace
    THEN rstrip(SubSeq(s, 1, Len(s) - 1))
    ELSE s

\* str.strip()
strip(s) == rstrip(lstrip(s))

UpperCase == "ABCDEFGHIJKLMNOPQRSTUVWXYZ"
LowerCase == "abcdefghijklmnopqrstuvwxyz"

UpperChars == {CharAt(UpperCase, i) : i \in 1..Len(UpperCase)}

LowerChar ==
    [c \in UpperChars |->
        CharAt(LowerCase, CHOOSE i \in 1..Len(UpperCase) : CharAt(UpperCase, i) = c)]

RECURSIVE LowerAt(_, _)
\* s with the characters at the given positions replaced by their lower case
LowerAt(s, positions) ==
    IF positions = {} THEN s
    ELSE LET i == CHOOSE p \in positions : TRUE
         IN  LowerAt(SubSeq(s, 1, i - 1) \o LowerChar[CharAt(s, i)] \o SubSeq(s, i + 1, Len(s)),
                     positions \ {i})

\* str.lower(): every upper-case character replaced, the others kept
lower(s) == LowerAt(s, {i \in 1..Len(s) : CharAt(s, i) \in UpperChars})

\* s[:n]
Prefix(s, n) == SubSeq(s, 1, IF Len(s) < n THEN Len(s) ELSE n)

\* dict update: the keys of upd overwrite those of d
Merge(d, upd) ==
    [k \in DOMAIN d \cup DOMAIN upd |-> IF k \in DOMAIN upd THEN upd[k] ELSE d[k]]

----------------------------------------------------------------------------
(* The graph: State, nodes, router *)

StateKeys == {"application", "experience_level", "skill_match", "response"}

ShortlistResponse ==
    "U+1F389 Congratulations! Your application has been shortlisted. You will be contacted within 2-3 business days to schedule an HR interview. Our team will discuss the role details, compensation, and next steps with you."

ForwardingResponse ==
    "U+1F504 Thank you for your application. While your experience is impressive, your skillset doesn't align with our current Python Developer role. However, we're forwarding your profile to our recruitment team to explore other suitable opportunities within our organization."

DeclineResponse ==
    "U+1F4DD Thank you for your interest in our Python Developer position. After careful review, we've decided to move forward with other candidates whose experience and skills more closely match our current requirements. We encourage you to apply for future openings that align with your background."

\* chain.invoke(...).content.strip(), stored under experience_level
categorize_experience(st, content) == [experience_level |-> strip(content)]

\* chain.invoke(...).content.strip(), stored under skill_match
assess_skillset(st, content) == [skill_match |-> strip(content)]

\* mutant: the node also rewrites the label it was routed on
schedule_hr_interview_relabelling(st) ==
    [response |-> ShortlistResponse, skill_match |-> "Match"]

schedule_hr_interview(st) == [response |-> ShortlistResponse]

escalate_to_recruiter(st) == [response |-> ForwardingResponse]

\* mutant: the node writes its text under a misspelt key
reject_application_misspelt(st) == [responce |-> DeclineResponse]

reject_application(st) == [response |-> DeclineResponse]

\* mutant: the seniority test comes first
route_application_senior_first(st) ==
    IF Contains("Senior-level", st["experience_level"]) THEN "escalate_to_recruiter"
    ELSE IF Contains("Match", st["skill_match"]) THEN "schedule_hr_interview"
    ELSE "reject_application"

\* mutant: the labels are compared for equality
route_application_exact(st) ==
    IF st["skill_match"] = "Match" THEN "schedule_hr_interview"
    ELSE IF st["experience_level"] = "Senior-level" THEN "escalate_to_recruiter"
    ELSE "reject_application"

\* mutant: the router consults the session: nobody is shortlisted while a
\* shortlisted candidate is in the history
route_application_one_shortlist(st) ==
    IF \E i \in DOMAIN screening_history :
          screening_history[i]["response"] = ShortlistResponse
    THEN "reject_application"
    ELSE IF Contains("Match", st["skill_match"]) THEN "schedule_hr_interview"
    ELSE IF Contains("Senior-level", st["experience_level"]) THEN "escalate_to_recruiter"
    ELSE "reject_application"

\* mutant: an application that is no match is sent back to be assessed again
route_application_reassess(st) ==
    IF Contains("Match", st["skill_match"]) THEN "schedule_hr_interview"
    ELSE IF Contains("Senior-level", st["experience_level"]) THEN "escalate_to_recruiter"
    ELSE "assess_skillset"

route_application(st) ==
    IF Contains("Match", st["skill_match"]) THEN "schedule_hr_interview"
    ELSE IF Contains("Senior-level", st["experience_level"]) THEN "escalate_to_recruiter"
    ELSE "reject_application"

TerminalNodes == {"schedule_hr_interview", "escalate_to_recruiter", "reject_application"}

ClassifierNodes == {"categorize_experience", "assess_skillset"}

\* the update a terminal node returns
TerminalUpdate(node, st) ==
    CASE node = "schedule_hr_interview" -> schedule_hr_interview(st)
      [] node = "escalate_to_recruiter" -> escalate_to_recruiter(st)
      [] node = "reject_application"    -> reject_application(st)

\* app.invoke({"application": application}): the graph starts from this dict
InitialState(application) == [application |-> application]

\* the dict run_candidate_screening builds from the final graph state;
\* a missing key raises KeyError
run_candidate_screening(final) ==
    IF {"experience_level", "skill_match", "response"} \subseteq DOMAIN final
    THEN [kind    |-> "returned",
          results |-> [experience_level |-> final["experience_level"],
                       skill_match      |-> final["skill_match"],
                       response         |-> final["response"]]]
    ELSE [kind |-> "raised", error |-> "KeyError"]

----------------------------------------------------------------------------
(* The backend *)

Respond(text) == [kind |-> "content", text |-> text]

BackendError == [kind |-> "error", text |-> ""]

\* texts the model may answer to the experience prompt: the three labels,
\* one of them with surrounding whitespace, and a label followed by more
\* text (off the list: nothing enforces the list)
ExperienceAnswers ==
    {"Entry-level", "Mid-level", " Senior-level\n", "Senior-level (10 years)"}

\* texts the model may answer to the skill prompt: the two labels, one with
\* a trailing newline, and an answer in the wrong case
SkillAnswers == {"Match\n", "No Match", "no match"}

Answers(node) ==
    IF node = "categorize_experience" THEN ExperienceAnswers ELSE SkillAnswers

Outcomes(node) == {Respond(t) : t \in Answers(node)} \cup {BackendError}

----------------------------------------------------------------------------
(* The interactive surface *)

ShortApplication == "Name: Ada\nExperience: 9 years\nSkills: COBOL, JCL"

LongApplication ==
    "Name: Grace\nExperience: 4 years\nSkills: Python, Django, Flask, FastAPI, SQL, PostgreSQL, Git, Docker, AWS"

\* what the text area may hold when the button is pressed
Applications == {"", "  \n", ShortApplication, LongApplication}

Screenable == {a \in Applications : strip(a) # ""}

\* datetime.now().strftime("%Y-%m-%d %H:%M:%S"); the wall clock is an input
Timestamps == {"2025-03-01 09:00:00", "2025-03-01 09:00:01"}

TruncateAt == 100

\* application_text[:100] + "..." if len(application_text) > 100 else application_text
Truncated(text) ==
    IF Len(text) > TruncateAt THEN Prefix(text, TruncateAt) \o "..." ELSE text

screening_result(timestamp, text, results) ==
    [timestamp        |-> timestamp,
     application      |-> Truncated(text),
     experience_level |-> results["experience_level"],
     skill_match      |-> results["skill_match"],
     response         |-> results["response"]]

\* mutant: history.append(entry)
InsertLast(history, entry) == history \o <<entry>>

\* history.insert(0, entry)
Insert0(history, entry) == <<entry>> \o history

\* mutant: the status compares the skill label for equality
get_status_color_exact(skill_match, experience_level) ==
    IF skill_match = "Match" THEN "success"
    ELSE IF Contains("Senior-level", experience_level) THEN "warning"
    ELSE "error"

get_status_color(skill_match, experience_level) ==
    IF Contains("Match", skill_match) THEN "success"
    ELSE IF Contains("Senior-level", experience_level) THEN "warning"
    ELSE "error"

StatusIcon(status_color) ==
    IF status_color = "success" THEN "Shortlisted"
    ELSE IF status_color = "warning" THEN "Escalated"
    ELSE "Rejected"

\* the templates a terminal node can write; Python evaluates the two tests
\* below on one of these texts every time, so their values on the
\* templates are computed once and looked up
ResponseTemplates == {ShortlistResponse, ForwardingResponse, DeclineResponse}

ShortlistedTemplates ==
    {r \in ResponseTemplates : Contains("shortlisted", lower(r))}

ForwardingTemplates ==
    {r \in ResponseTemplates : Contains("forwarding", lower(r))}

\* "shortlisted" in response.lower()
MentionsShortlisted(response) ==
    IF response \in ResponseTemplates THEN response \in ShortlistedTemplates
    ELSE Contains("shortlisted", lower(response))

\* "forwarding" in response.lower()
MentionsForwarding(response) ==
    IF response \in ResponseTemplates THEN response \in ForwardingTemplates
    ELSE Contains("forwarding", lower(response))

\* which st.* call shows the final decision
DecisionBanner(response) ==
    IF MentionsShortlisted(response) THEN "success"
    ELSE IF MentionsForwarding(response) THEN "warning"
    ELSE "error"

IsShortlisted(entry) == MentionsShortlisted(entry["response"])

IsEscalated(entry) == MentionsForwarding(entry["response"])

NoStats == [shown |-> FALSE, total |-> 0, shortlisted |-> 0, escalated |-> 0, rejected |-> 0]

QuickStats(history) ==
    IF history = <<>> THEN NoStats
    ELSE LET total_applications == Len(history)
             shortlisted == Cardinality({i \in DOMAIN history : IsShortlisted(history[i])})
             escalated   == Cardinality({i \in DOMAIN history : IsEscalated(history[i])})
         IN  [shown       |-> TRUE,
              total       |-> total_applications,
              shortlisted |-> shortlisted,
              escalated   |-> escalated,
              rejected    |-> total_applications - shortlisted - escalated]

\* one script run's rendering
Render(notice, status_icon, decision, history) ==
    [notice |-> notice, status_icon |-> status_icon, decision |-> decision,
     stats |-> QuickStats(history)]

NoOutcome == [kind |-> "none"]

NoState == [k \in {} |-> ""]

----------------------------------------------------------------------------
(* Initial states *)

\* a backend with no determinism: any call may give any answer or fail
LiveBackend ==
    [node \in ClassifierNodes |-> [a \in Screenable |-> Outcomes(node)]]

\* backends that give one fixed outcome per prompt
DeterministicBackends ==
    {[node \in ClassifierNodes |->
        [a \in Screenable |->
            {IF node = "categorize_experience" THEN e[a] ELSE s[a]}]] :
        e \in [Screenable -> Outcomes("categorize_experience")],
        s \in [Screenable -> Outcomes("assess_skillset")]}

InitSession ==
    /\ pc = "idle"
    /\ state = NoState
    /\ outcome = NoOutcome
    /\ screening_history = <<>>
    /\ view = Render("none", "", "", <<>>)
    /\ trace = <<>>
    /\ log = <<>>

Init ==
    /\ llm = LiveBackend
    /\ InitSession

\* the same session in front of a deterministic backend stub
InitDet ==
    /\ llm \in DeterministicBackends
    /\ InitSession

----------------------------------------------------------------------------
(* Actions *)

\* "Screen Application" pressed with nothing but whitespace in the text area
ScreenBlank(text) ==
    /\ pc = "idle"
    /\ strip(text) = ""
    /\ view' = Render("warning", "", "", screening_history)
    /\ outcome' = NoOutcome
    /\ trace' = <<>>
    /\ UNCHANGED <<llm, pc, state, screening_history, log>>

\* "Screen Application" pressed with text: run_candidate_screening is
\* entered and the graph starts at START -> categorize_experience
\* (the spinner is up; the results and the Quick Stats column are rendered
\* only after the run)
StartScreening(text) ==
    /\ pc = "idle"
    /\ strip(text) # ""
    /\ Len(screening_history) < MaxHistory
    /\ pc' = "categorize_experience"
    /\ state' = InitialState(text)
    /\ outcome' = NoOutcome
    /\ trace' = <<>>
    /\ view' = Render("spinner", "", "", <<>>)
    /\ UNCHANGED <<llm, screening_history, log>>

\* node categorize_experience, the backend answers
CategorizeExperience ==
    /\ pc = "categorize_experience"
    /\ \E out \in llm[pc][state["application"]] :
        /\ out["kind"] = "content"
        /\ state' = Merge(state, categorize_experience(state, out["text"]))
    /\ pc' = "assess_skillset"
    /\ trace' = Append(trace, pc)
    /\ UNCHANGED <<llm, outcome, screening_history, view, log>>

\* node assess_skillset, the backend answers
AssessSkillset ==
    /\ pc = "assess_skillset"
    /\ \E out \in llm[pc][state["application"]] :
        /\ out["kind"] = "content"
        /\ state' = Merge(state, assess_skillset(state, out["text"]))
    /\ pc' = "route_application"
    /\ trace' = Append(trace, pc)
    /\ UNCHANGED <<llm, outcome, screening_history, view, log>>

\* mutant: the entry is stored although the run raised
BackendFailsRecorded ==
    /\ pc \in ClassifierNodes
    /\ BackendError \in llm[pc][state["application"]]
    /\ pc' = "idle"
    /\ state' = NoState
    /\ outcome' = [kind |-> "raised", error |-> "BackendError"]
    /\ trace' = Append(trace, pc)
    /\ \E timestamp \in Timestamps :
          screening_history' =
              Insert0(screening_history,
                      [timestamp        |-> timestamp,
                       application      |-> Truncated(state["application"]),
                       experience_level |-> "",
                       skill_match      |-> "",
                       response         |-> ""])
    /\ view' = Render("error", "", "", screening_history')
    /\ UNCHANGED <<llm, log>>

\* the backend fails inside a classifier node: the exception leaves
\* app.invoke and run_candidate_screening and is caught by main's except
BackendFails ==
    /\ pc \in ClassifierNodes
    /\ BackendError \in llm[pc][state["application"]]
    /\ pc' = "idle"
    /\ state' = NoState
    /\ outcome' = [kind |-> "raised", error |-> "BackendError"]
    /\ trace' = Append(trace, pc)
    /\ view' = Render("error", "", "", screening_history)
    /\ UNCHANGED <<llm, screening_history, log>>

\* the conditional edge after assess_skillset
RouteApplication ==
    /\ pc = "route_application"
    /\ pc' = route_application(state)
    /\ UNCHANGED <<llm, state, outcome, screening_history, view, trace, log>>

\* one of the three terminal nodes, followed by its edge to END
TerminalAction ==
    /\ pc \in TerminalNodes
    /\ state' = Merge(state, TerminalUpdate(pc, state))
    /\ pc' = "END"
    /\ trace' = Append(trace, pc)
    /\ UNCHANGED <<llm, outcome, screening_history, view, log>>

\* app.invoke returns; run_candidate_screening returns its dict; main stores
\* the entry at the head of the history and renders the results
FinishScreening ==
    /\ pc = "END"
    /\ LET text == state["application"]
           ret  == run_candidate_screening(state)
       IN  IF ret["kind"] = "returned"
           THEN \E timestamp \in Timestamps :
                  LET entry == screening_result(timestamp, text, ret["results"])
                      res   == ret["results"]
                  IN  /\ screening_history' = Insert0(screening_history, entry)
                      /\ view' = Render("success",
                                        StatusIcon(get_status_color(res["skill_match"],
                                                                    res["experience_level"])),
                                        DecisionBanner(res["response"]),
                                        screening_history')
                      /\ log' = Append(log, [application |-> text,
                                             results     |-> res,
                                             action      |-> trace[Len(trace)],
                                             entry       |-> entry])
           ELSE /\ view' = Render("error", "", "", screening_history)
                /\ UNCHANGED <<screening_history, log>>
    /\ outcome' = run_candidate_screening(state)
    /\ pc' = "idle"
    /\ state' = NoState
    /\ UNCHANGED <<llm, trace>>

\* "Clear History" pressed (the button exists only while there is history),
\* then st.rerun() renders the page again
ClearHistory ==
    /\ pc = "idle"
    /\ screening_history # <<>>
    /\ screening_history' = <<>>
    /\ view' = Render("none", "", "", <<>>)
    /\ outcome' = NoOutcome
    /\ trace' = <<>>
    /\ log' = <<>>
    /\ UNCHANGED <<llm, pc, state>>

Next ==
    \/ \E text \in Applications : ScreenBlank(text)
    \/ \E text \in Applications : StartScreening(text)
    \/ CategorizeExperience
    \/ AssessSkillset
    \/ BackendFails
    \/ RouteApplication
    \/ TerminalAction
    \/ FinishScreening
    \/ ClearHistory

Spec == Init /\ [][Next]_vars

\* deterministic backend stub
SpecDet == InitDet /\ [][Next]_vars

\* a run in progress is synchronous code: it keeps stepping until it
\* returns or raises
RunStep ==
    \/ CategorizeExperience
    \/ AssessSkillset
    \/ BackendFails
    \/ RouteApplication
    \/ TerminalAction
    \/ FinishScreening

FairSpec == Init /\ [][Next]_vars /\ WF_vars(RunStep)

TypeOK ==
    /\ pc \in {"idle", "categorize_experience", "assess_skillset", "route_application", "END"}
                \cup TerminalNodes
    /\ DOMAIN state \subseteq StateKeys
    /\ Len(screening_history) <= MaxHistory

----------------------------------------------------------------------------
(* Helpers of the properties *)

Reverse(seq) == [i \in 1..Len(seq) |-> seq[Len(seq) + 1 - i]]

Occurrences(seq, x) == Cardinality({i \in DOMAIN seq : seq[i] = x})

ResultKeys == {"experience_level", "skill_match", "response"}

\* a run has ended and returned a record
Returned == outcome["kind"] = "returned"

\* a run has ended by raising
Raised == outcome["kind"] = "raised"

----------------------------------------------------------------------------
(* C1 *)

\* C1: a run of run_candidate_screening ends in one of two ways only: it
\* returns a record whose three fields experience_level, skill_match and
\* response are all set and whose response is one of the three fixed
\* templates, or it fails with the backend's error.
C1_RunOutcome ==
    /\ outcome["kind"] \in {"none", "returned", "raised"}
    /\ Returned =>
        /\ DOMAIN outcome["results"] = ResultKeys
        /\ outcome["results"]["response"] \in ResponseTemplates
        /\ outcome["results"]["response"] # ""
    /\ Raised => outcome["error"] = "BackendError"
    /\ (pc = "idle" /\ trace # <<>>) => (Returned \/ Raised)
    /\ pc = "END" => ResultKeys \subseteq DOMAIN state

\* a run has returned the decline template after an off-list skill answer
C1_Witness ==
    /\ Returned
    /\ outcome["results"]["response"] = DeclineResponse
    /\ outcome["results"]["skill_match"] = "no match"

----------------------------------------------------------------------------
(* C2 *)

\* C2: the router always chooses exactly one of the three terminal nodes,
\* in priority order: schedule_hr_interview when skill_match contains
\* "Match"; otherwise escalate_to_recruiter when experience_level contains
\* "Senior-level"; otherwise reject_application.  ("Match", "Senior-level")
\* goes to schedule_hr_interview.
C2_RouterPriority ==
    /\ pc = "route_application" => ENABLED RouteApplication
    /\ pc \in TerminalNodes =>
        LET matches == Contains("Match", state["skill_match"])
            senior  == Contains("Senior-level", state["experience_level"])
        IN  /\ matches => pc = "schedule_hr_interview"
            /\ (~matches /\ senior) => pc = "escalate_to_recruiter"
            /\ (~matches /\ ~senior) => pc = "reject_application"
            /\ (state["skill_match"] = "Match" /\ state["experience_level"] = "Senior-level")
                  => pc = "schedule_hr_interview"

\* the router has just decided the pair ("Match", "Senior-level")
C2_Witness ==
    /\ pc = "schedule_hr_interview"
    /\ state["skill_match"] = "Match"
    /\ state["experience_level"] = "Senior-level"

----------------------------------------------------------------------------
(* C3 *)

\* the labels of the run in progress are exactly these
Labelled(skill, experience) ==
    /\ {"skill_match", "experience_level"} \subseteq DOMAIN state
    /\ state["skill_match"] = skill
    /\ state["experience_level"] = experience

\* the run that has just returned carried exactly these labels
ReturnedWith(skill, experience) ==
    /\ Returned
    /\ outcome["results"]["skill_match"] = skill
    /\ outcome["results"]["experience_level"] = experience

----------------------------------------------------------------------------
(* C4 *)

\* C4: a run labelled "No Match" and "Senior-level" executes
\* escalate_to_recruiter and ends with the forwarding response; a run
\* labelled "No Match" and a non-senior label ends with the rejection.
C4_NoMatchEscalatedOrRejected ==
    /\ ReturnedWith("No Match", "Senior-level")
          => /\ outcome["results"]["response"] = ForwardingResponse
             /\ trace[Len(trace)] = "escalate_to_recruiter"
    /\ (ReturnedWith("No Match", "Entry-level") \/ ReturnedWith("No Match", "Mid-level"))
          => outcome["results"]["response"] = DeclineResponse

----------------------------------------------------------------------------
(* C5 *)

\* a step in which a classifier node ends the run instead of handing on
AbortStep == pc \in ClassifierNodes /\ pc' = "idle"

\* C5: when the backend fails in categorize_experience or assess_skillset
\* the run stops there: the failing node is the last one executed and ran
\* once, no later stage and no terminal node has run, nothing is returned
\* (the run ends as raised, with no graph state left), the surface shows the
\* error, and the screening history is what it was before the failure.
C5_BackendFailureAborts ==
    /\ [](Raised => (pc = "idle" /\ ~ENABLED RunStep))
    /\ [][AbortStep =>
        /\ outcome'["kind"] = "raised"
        /\ outcome'["error"] = "BackendError"
        /\ "results" \notin DOMAIN outcome'
        /\ state' = NoState
        /\ trace' = Append(trace, pc)
        /\ trace' \in {<<"categorize_experience">>,
                       <<"categorize_experience", "assess_skillset">>}
        /\ view'["notice"] = "error"
        /\ screening_history' = screening_history
        /\ log' = log]_vars

\* the skill assessment has failed while the history held an earlier result
C5_Witness ==
    /\ Raised
    /\ trace = <<"categorize_experience", "assess_skillset">>
    /\ screening_history # <<>>

----------------------------------------------------------------------------
(* C6 *)

\* the entries of the successful screenings since the last clear, newest first
ExpectedHistory == Reverse([i \in DOMAIN log |-> log[i]["entry"]])

\* C6: the history is exactly the successful screenings since the last
\* clear, most recent first; a step that changes it either puts the entry of
\* the run that has just returned at position 0, in front of the unchanged
\* earlier entries, or is a clear that leaves it empty.
C6_HistoryNewestFirst ==
    /\ [](screening_history = ExpectedHistory)
    /\ [][screening_history' # screening_history =>
            \/ /\ pc = "END"
               /\ Len(screening_history') = Len(screening_history) + 1
               /\ Tail(screening_history') = screening_history
               /\ outcome'["kind"] = "returned"
               /\ \A k \in ResultKeys :
                     screening_history'[1][k] = outcome'["results"][k]
            \/ /\ pc = "idle"
               /\ screening_history' = <<>>]_vars
    /\ [][(pc = "idle" /\ pc' = "idle" /\ view'["notice"] = "none")
            => screening_history' = <<>>]_vars

\* two screenings of different texts with different results are held
C6_Witness ==
    /\ Len(screening_history) = 2
    /\ screening_history[1]["response"] # screening_history[2]["response"]
    /\ screening_history[1]["application"] # screening_history[2]["application"]

----------------------------------------------------------------------------
(* C7 *)

\* C7: against a deterministic backend, two runs on the same application
\* text return identical records, whatever was screened in between and
\* whatever the history holds.
C7_SameInputSameOutput ==
    \A i, j \in DOMAIN log :
        log[i]["application"] = log[j]["application"]
            => log[i]["results"] = log[j]["results"]

\* the same text has been screened twice, the second time with the first
\* result in the history
C7_Witness ==
    /\ Len(log) = 2
    /\ log[1]["application"] = log[2]["application"]
    /\ Len(screening_history) = 2

----------------------------------------------------------------------------
(* C8 *)

FieldOrder == <<"application", "experience_level", "skill_match", "response">>

\* the first n fields
FirstFields(n) == {FieldOrder[i] : i \in 1..n}

\* a step of a run that leaves the record in existence
RecordStep == state' # state /\ state' # NoState

\* C8: the fields of the record are set in the order application,
\* experience_level, skill_match, response: the set fields are always a
\* prefix of that order; a step that changes the record sets exactly one
\* field, the next one, and leaves every field already set as it was; a
\* terminal node writes response and nothing else.
C8_FieldsLeftToRight ==
    /\ [](\E n \in 0..Len(FieldOrder) : DOMAIN state = FirstFields(n))
    /\ [][RecordStep =>
            /\ \E n \in 1..Len(FieldOrder) :
                  /\ DOMAIN state = FirstFields(n - 1)
                  /\ DOMAIN state' = FirstFields(n)
            /\ \A k \in DOMAIN state : state'[k] = state[k]
            /\ pc \in TerminalNodes => DOMAIN state' \ DOMAIN state = {"response"}]_vars
    /\ [][(pc \in ClassifierNodes \cup TerminalNodes /\ pc' # "idle") => RecordStep]_vars

\* a record with all four fields, the shortlist response on a "No Match" label
C8_Witness ==
    /\ DOMAIN state = StateKeys
    /\ state["skill_match"] = "No Match"
    /\ state["response"] = ShortlistResponse

----------------------------------------------------------------------------
(* C9 *)

\* the edges of the graph, entry and exit of a run included
StageEdges ==
    {<<"idle", "categorize_experience">>,
     <<"categorize_experience", "assess_skillset">>,
     <<"assess_skillset", "route_application">>,
     <<"END", "idle">>}
    \cup {<<"route_application", n>> : n \in TerminalNodes}
    \cup {<<n, "END">> : n \in TerminalNodes}
    \cup {<<n, "idle">> : n \in ClassifierNodes}

\* C9: a run goes Start (categorize_experience about to run),
\* ExperienceClassified (assess_skillset about to run), SkillAssessed (the
\* router about to run), Routed (a terminal node about to run), Done (END),
\* leaving this order only by a backend error; no node runs twice, each
\* classifier runs at most once, a run at Done has executed exactly one
\* terminal node, after both classifiers; and every run that starts reaches
\* Done or ends with a backend error.
C9_StagesInOrder ==
    /\ [][pc' # pc => <<pc, pc'>> \in StageEdges]_vars
    /\ [](/\ \A n \in ClassifierNodes \cup TerminalNodes : Occurrences(trace, n) <= 1
          /\ pc = "END" =>
                /\ Len(trace) = 3
                /\ trace[1] = "categorize_experience"
                /\ trace[2] = "assess_skillset"
                /\ trace[3] \in TerminalNodes)
    /\ (pc = "categorize_experience") ~> (pc = "END" \/ Raised)

\* a run is at Done having gone through escalate_to_recruiter
C9_Witness ==
    /\ pc = "END"
    /\ trace = <<"categorize_experience", "assess_skillset", "escalate_to_recruiter">>

----------------------------------------------------------------------------
(* C10 *)

\* what the surface shows for each terminal node
ShownFor(action) ==
    CASE action = "schedule_hr_interview" ->
            [color |-> "success", icon |-> "Shortlisted", response |-> ShortlistResponse]
      [] action = "escalate_to_recruiter" ->
            [color |-> "warning", icon |-> "Escalated", response |-> ForwardingResponse]
      [] action = "reject_application" ->
            [color |-> "error", icon |-> "Rejected", response |-> DeclineResponse]

\* the successful screenings since the last clear that went through this node
ProducedBy(action) == Cardinality({i \in DOMAIN log : log[i]["action"] = action})

\* C10: what the surface shows agrees with the terminal node that ran: for
\* every successful run get_status_color gives success, warning or error
\* exactly for the shortlist, forwarding and decline template, and the
\* substring tests on the response give the same class; the Quick Stats
\* counts are the numbers of history entries produced by each terminal
\* node, none negative, summing to the length of the history.
C10_ViewAgreesWithRouter ==
    /\ \A i \in DOMAIN log :
          LET r     == log[i]["results"]
              shown == ShownFor(log[i]["action"])
          IN  /\ r["response"] = shown["response"]
              /\ get_status_color(r["skill_match"], r["experience_level"]) = shown["color"]
              /\ DecisionBanner(r["response"]) = shown["color"]
    /\ view["notice"] = "success" =>
          LET shown == ShownFor(log[Len(log)]["action"])
          IN  /\ view["status_icon"] = shown["icon"]
              /\ view["decision"] = shown["color"]
    /\ pc = "idle" =>
          /\ view["stats"]["shown"] = (screening_history # <<>>)
          /\ view["stats"]["total"] = Len(screening_history)
          /\ view["stats"]["shortlisted"] = ProducedBy("schedule_hr_interview")
          /\ view["stats"]["escalated"] = ProducedBy("escalate_to_recruiter")
          /\ view["stats"]["rejected"] = ProducedBy("reject_application")
          /\ view["stats"]["rejected"] >= 0
          /\ view["stats"]["shortlisted"] + view["stats"]["escalated"]
                + view["stats"]["rejected"] = Len(screening_history)

\* the stats count one escalated and one rejected screening
C10_Witness ==
    /\ pc = "idle"
    /\ view["stats"]["escalated"] = 1
    /\ view["stats"]["rejected"] = 1
    /\ view["status_icon"] = "Rejected"

====
